---------------------------- MODULE Spec2Model ----------------------------
(***************************************************************************)
(* A model of the ext2 image browser of src/src/main.rs: the Ext2 view     *)
(* built by Ext2::new, the inode resolver, the directory reader, the path  *)
(* walker, the file reader, the directory mutator and the command loop of  *)
(* main.  The image is modelled byte for byte: blocks[k] is the content of *)
(* the k-th slice of Ext2.blocks, and every record (inode, directory       *)
(* entry) is decoded from those bytes as the code decodes it.              *)
(***************************************************************************)
EXTENDS Naturals, Integers, Sequences, FiniteSets, TLC

VARIABLES
    superblock,             \* Ext2.superblock: the superblock record of the device
    block_groups,           \* Ext2.block_groups: the descriptors Ext2::new read
    block_size,             \* Ext2.block_size
    block_offset,           \* Ext2.block_offset
    blocks,                 \* Ext2.blocks: the bytes of each block slice
    current_working_inode,  \* main: current_working_inode
    dirs,                   \* main: the listing fetched at the top of the loop
    pc,                     \* where the process is
    out,                    \* what the last command (or probe) did
    inserts                 \* number of insert_dir_entry calls so far

vars == <<superblock, block_groups, block_size, block_offset, blocks,
          current_working_inode, dirs, pc, out, inserts>>

\* out before any command or probe.
NoOut == [op |-> "none"]

(***************************************************************************)
(* Little-endian scalars in a byte sequence.  Offsets are 0-based as in    *)
(* the code; a TLA+ sequence is 1-based.                                   *)
(***************************************************************************)
U8(m, off) == m[off + 1]

U16(m, off) == m[off + 1] + 256 * m[off + 2]

\* The checker's integers are 32-bit: a u32 of 2^31 or more is written as
\* the negative number with the same four bytes (v - 2^32).  The code only
\* uses such a value as an index, which is then out of range.
U32(m, off) == m[off + 1] + 256 * m[off + 2] + 65536 * m[off + 3]
               + 16777216 * (IF m[off + 4] >= 128 THEN m[off + 4] - 256
                             ELSE m[off + 4])

LE16(v) == <<v % 256, (v \div 256) % 256>>

LE32(v) == <<v % 256, (v \div 256) % 256, (v \div 65536) % 256,
             (v \div 16777216) % 256>>

Zeros(n) == [i \in 1..n |-> 0]

Min(a, b) == IF a < b THEN a ELSE b

(***************************************************************************)
(* Program constants.                                                      *)
(***************************************************************************)
EXT2_START_OF_SUPERBLOCK == 1024

EXT2_END_OF_SUPERBLOCK == 2048

\* mem::size_of::<Inode>(): the stride of the inode_table slice in get_inode.
InodeStructSize == 128

\* TypePerm::DIRECTORY and TypePerm::FILE
TYPE_DIRECTORY == 16384

TYPE_FILE == 32768

HasBit(type_perm, bit) == (type_perm \div bit) % 2 = 1

\* Inode.direct_pointer: [u32; 12]
DIRECT_POINTERS == 12

(***************************************************************************)
(* Ext2::new.  The device is cut at byte 2048; the next block_size bytes   *)
(* are read as the group descriptors; the rest is chunked into blocks.     *)
(***************************************************************************)
NewBlockSize(sb) == 1024 * (2 ^ sb.log_block_size)

DivCeil(a, b) == (a + b - 1) \div b

NewBlockGroupCount(sb) == DivCeil(sb.blocks_count, sb.blocks_per_group)

\* Device byte offset of the bytes read as the group descriptor table.
NewDescriptorStart == EXT2_END_OF_SUPERBLOCK

\* Device byte offset of blocks[0]: after the split at 2048 and the split
\* at block_size that follows it.
NewBlocksStart(sb) == NewDescriptorStart + NewBlockSize(sb)

\* Device byte offset at which the slice blocks[k] starts (chunks(block_size)).
SliceStart(sb, k) == NewBlocksStart(sb) + k * NewBlockSize(sb)

NewBlockOffset(sb) == NewBlocksStart(sb) \div NewBlockSize(sb)

(***************************************************************************)
(* The devices of the mount specification: superblocks with the supported  *)
(* block sizes, one or two block groups, and both common inode sizes.      *)
(***************************************************************************)
MaxLogBlockSize == 2

MaxProbeBlock == 8

FirstDataBlock(sb) == IF sb.log_block_size = 0 THEN 1 ELSE 0

\* Where the format puts the group descriptor table: the block after the
\* superblock's block.
FormatDescriptorStart(sb) == (FirstDataBlock(sb) + 1) * NewBlockSize(sb)

\* The descriptors the device holds at FormatDescriptorStart.
DeviceGroups(sb) ==
    [g \in 1..NewBlockGroupCount(sb) |->
        [inode_table_block |->
            FirstDataBlock(sb) + (g - 1) * sb.blocks_per_group + 4]]

\* What Ext2::new reads as the descriptors: the bytes at NewDescriptorStart.
\* Where that is not the table, it is the zero padding that follows the
\* superblock in block 0.
NewBlockGroups(sb) ==
    IF NewDescriptorStart = FormatDescriptorStart(sb)
    THEN DeviceGroups(sb)
    ELSE [g \in 1..NewBlockGroupCount(sb) |-> [inode_table_block |-> 0]]

Superblocks ==
    [log_block_size : 0..MaxLogBlockSize,
     blocks_count : {8192, 16384},
     blocks_per_group : {8192},
     inodes_per_group : {8, 16},
     inode_size : {128, 256}]

(***************************************************************************)
(* get_inode: the slice of the inode table and the byte offset in it.      *)
(***************************************************************************)
GetInodeGroup(n) == (n - 1) \div superblock.inodes_per_group

GetInodeIndex(n) == (n - 1) % superblock.inodes_per_group

\* inode - 1 and inode_table_block - block_offset are usize: below zero they
\* panic (debug) or wrap to an index that is out of range (release);
\* block_groups[group] is bounds-checked.
GetInodePanics(n) ==
    \/ n <= 0
    \/ GetInodeGroup(n) >= Len(block_groups)
    \/ block_groups[GetInodeGroup(n) + 1].inode_table_block < block_offset

GetInodeSlice(n) ==
    block_groups[GetInodeGroup(n) + 1].inode_table_block - block_offset

GetInodeByteOffset(n) == GetInodeIndex(n) * InodeStructSize

\* Device byte address of the record get_inode returns.
GetInodeAddress(n) ==
    SliceStart(superblock, GetInodeSlice(n)) + GetInodeByteOffset(n)

(***************************************************************************)
(* The image of the command-loop specification: myfs.ext2 with 1024-byte   *)
(* blocks, one block group, 16 inodes of 128 bytes, and the tree           *)
(*   /  (inode 2)   .  ..  a  b  d                                         *)
(*   a  (inode 12)  a 4-byte binary file: 01 00 02 03                      *)
(*   b/ (inode 13)  .  ..  c                                               *)
(*   c  (inode 14)  "hello\n"                                              *)
(*   d  (inode 15)  a sparse file: "one\n" in block 0, a hole, "two\n"     *)
(*                  in block 2                                             *)
(* Disk blocks: 3, 4 the bitmaps, 5-6 the inode table, 7 the data of /,    *)
(* 8 of b, 9 of a, 10 and 12 of d, 11 of c.                                *)
(***************************************************************************)
ImageSuperblock ==
    [log_block_size |-> 0, blocks_count |-> 13, blocks_per_group |-> 8192,
     inodes_per_group |-> 16, inode_size |-> 128]

Pad(s, n) == s \o Zeros(n - Len(s))

\* An on-disk inode record: type_perm at 0, size_low at 4, direct_pointer at
\* 40, size_high at 108.
ImageInode(type_perm, size, pointers) ==
    Pad(LE16(type_perm) \o <<0, 0>> \o LE32(size) \o Zeros(32)
        \o LE32(pointers[1]) \o LE32(pointers[2]) \o LE32(pointers[3]),
        InodeStructSize)

\* An on-disk directory record of entry_size bytes.
ImageDirEntry(inode, entry_size, type_indicator, name) ==
    Pad(LE32(inode) \o LE16(entry_size) \o <<Len(name), type_indicator>>
        \o name, entry_size)

ImageInodeTable ==
    Zeros(InodeStructSize)                                        \* 1
    \o ImageInode(TYPE_DIRECTORY + 493, 1024, <<7, 0, 0>>)        \* 2: /
    \o Zeros(9 * InodeStructSize)                                 \* 3..11
    \o ImageInode(TYPE_FILE + 420, 4, <<9, 0, 0>>)                \* 12: a
    \o ImageInode(TYPE_DIRECTORY + 493, 1024, <<8, 0, 0>>)        \* 13: b
    \o ImageInode(TYPE_FILE + 420, 6, <<11, 0, 0>>)               \* 14: c
    \o ImageInode(TYPE_FILE + 420, 2052, <<10, 0, 12>>)           \* 15: d
    \o Zeros(InodeStructSize)                                     \* 16

ImageRootDir ==
    ImageDirEntry(2, 12, 2, <<46>>)                 \* .
    \o ImageDirEntry(2, 12, 2, <<46, 46>>)          \* ..
    \o ImageDirEntry(12, 12, 1, <<97>>)             \* a
    \o ImageDirEntry(13, 12, 2, <<98>>)             \* b
    \o ImageDirEntry(15, 976, 1, <<100>>)           \* d

\* The record of .. has kept the room of entries removed after it; c is the
\* last record and ends with the block.
ImageDirB ==
    ImageDirEntry(13, 12, 2, <<46>>)                \* .
    \o ImageDirEntry(2, 1000, 2, <<46, 46>>)        \* ..
    \o ImageDirEntry(14, 12, 1, <<99>>)             \* c

ImageBlocks ==
    << Pad(<<255, 31>>, 1024),                          \* 3: block bitmap
       Pad(<<255, 127>>, 1024),                         \* 4: inode bitmap
       SubSeq(ImageInodeTable, 1, 1024),                \* 5: inode table
       SubSeq(ImageInodeTable, 1025, 2048),             \* 6: inode table
       ImageRootDir,                                    \* 7: /
       ImageDirB,                                       \* 8: b
       Pad(<<1, 0, 2, 3>>, 1024),                       \* 9: a
       Pad(<<111, 110, 101, 10>>, 1024),                \* 10: d, "one\n"
       Pad(<<104, 101, 108, 108, 111, 10>>, 1024),      \* 11: c, "hello\n"
       Pad(<<116, 119, 111, 10>>, 1024) >>              \* 12: d, "two\n"

(***************************************************************************)
(* Reads through the slices of Ext2.blocks.  A raw pointer taken from      *)
(* blocks[k].as_ptr() reads on into the slices that follow it.             *)
(***************************************************************************)
DevByte(k, off) ==
    blocks[k + (off \div block_size) + 1][(off % block_size) + 1]

DevBytes(k, off, n) == [i \in 1..n |-> DevByte(k, off + i - 1)]

\* blocks[pointer as usize - block_offset]: the subtraction is usize and the
\* index is bounds-checked; a slice past the end of the device is not
\* memory of the image.
SlicePanics(pointer) ==
    \/ pointer < block_offset
    \/ pointer - block_offset >= Len(blocks)

\* The fields of the Inode record get_inode returns.
GetInode(n) ==
    LET rec == DevBytes(GetInodeSlice(n), GetInodeByteOffset(n), InodeStructSize)
    IN  [type_perm |-> U16(rec, 0),
         size_low |-> U32(rec, 4),
         size_high |-> U32(rec, 108),
         direct_pointer |-> [i \in 0..(DIRECT_POINTERS - 1) |-> U32(rec, 40 + 4 * i)],
         indirect_pointer |-> U32(rec, 88)]

IsDirectory(inode_rec) == HasBit(inode_rec.type_perm, TYPE_DIRECTORY)

IsFile(inode_rec) == HasBit(inode_rec.type_perm, TYPE_FILE)

\* ((size_high as u64) << 32) + size_low.  A size of 2^31 or more is more
\* than any payload of direct blocks; it is written as the largest integer.
WholeSize(inode_rec) ==
    IF inode_rec.size_high = 0 /\ inode_rec.size_low >= 0
    THEN inode_rec.size_low
    ELSE 2147483647

(***************************************************************************)
(* contiguous_data_from_dir_inode.  The result is the Vec: buf is the      *)
(* memory of its allocation (the bytes gathered), len its length after the *)
(* trailing NULs were truncated.                                           *)
(***************************************************************************)
RECURSIVE GatherDirect(_, _, _, _)
GatherDirect(root, whole_size, i, data) ==
    IF i < DIRECT_POINTERS /\ Len(data) < whole_size
    THEN IF SlicePanics(root.direct_pointer[i])
         THEN [kind |-> "panic"]
         ELSE GatherDirect(root, whole_size, i + 1,
                 data \o SubSeq(blocks[root.direct_pointer[i] - block_offset + 1],
                                1, Min(block_size, whole_size - Len(data))))
    ELSE [kind |-> "ok", data |-> data]

\* The length after the loop at lines 195-201: i + 1 for the last non-zero
\* byte i, the whole length when every byte is zero.
TrimmedLen(data) ==
    LET nz == {i \in 1..Len(data) : data[i] # 0}
    IN  IF nz = {} THEN Len(data)
        ELSE CHOOSE m \in nz : \A j \in nz : j <= m

\* The Vec after the trim, from what the gathering loop produced.
Trimmed(g) ==
    IF g.kind = "panic" THEN g
    ELSE [kind |-> "ok", buf |-> g.data, len |-> TrimmedLen(g.data)]

ContiguousDataOf(root) ==
    IF ~IsDirectory(root)
    THEN [kind |-> "err", msg |-> "inode is not a directory"]
    ELSE Trimmed(GatherDirect(root, WholeSize(root), 0, <<>>))

ContiguousDataFromDirInode(inode) ==
    IF GetInodePanics(inode) THEN [kind |-> "panic"]
    ELSE ContiguousDataOf(GetInode(inode))

(***************************************************************************)
(* The record walk.  A DirectoryEntry is read in place at byte_offset of   *)
(* the buffer: inode at 0, entry_size at 4, name_length at 6, the type at  *)
(* 7 and the NUL-terminated name from 8.                                   *)
(***************************************************************************)
\* The bytes of a NulStr at pos: up to the first NUL.  A string that runs
\* off the allocation has no defined value.
RECURSIVE NulStr(_, _)
NulStr(buf, pos) ==
    IF pos >= Len(buf) THEN <<-2>>
    ELSE IF buf[pos + 1] = 0 THEN <<>>
    ELSE <<buf[pos + 1]>> \o NulStr(buf, pos + 1)

EntryAt(buf, byte_offset) ==
    [offset |-> byte_offset,
     inode |-> U32(buf, byte_offset),
     entry_size |-> U16(buf, byte_offset + 4),
     name_length |-> U8(buf, byte_offset + 6),
     name |-> NulStr(buf, byte_offset + 8)]

\* The loop `while byte_offset < len`: the entries it visits from
\* byte_offset on.  A record with entry_size 0 keeps the cursor in place and
\* the loop never ends; a header that is not inside the allocation is a read
\* of memory that is not the buffer's.
RECURSIVE WalkFrom(_, _, _, _)
WalkFrom(buf, len, byte_offset, visited) ==
    IF byte_offset < len
    THEN IF byte_offset + 8 > Len(buf)
         THEN [kind |-> "overrun", entries |-> visited]
         ELSE IF U16(buf, byte_offset + 4) = 0
              THEN [kind |-> "hang", entries |-> visited]
              ELSE WalkFrom(buf, len,
                            byte_offset + U16(buf, byte_offset + 4),
                            Append(visited, EntryAt(buf, byte_offset)))
    ELSE [kind |-> "ok", entries |-> visited, byte_offset |-> byte_offset]

(***************************************************************************)
(* read_dir_inode.  An error of contiguous_data_from_dir_inode is a panic  *)
(* ("Whoopsies"), so the later directory test never fails.                 *)
(***************************************************************************)
\* ret_vec: the (inode, name) pairs of the entries the walk visited.
RetVec(w) ==
    IF w.kind # "ok" THEN [kind |-> w.kind]
    ELSE [kind |-> "ok",
          list |-> [i \in 1..Len(w.entries) |->
                      [inode |-> w.entries[i].inode,
                       name |-> w.entries[i].name]]]

ReadDirFrom(c, inode) ==
    IF c.kind # "ok" THEN [kind |-> "panic"]
    ELSE IF ~IsDirectory(GetInode(inode))
    THEN [kind |-> "err", msg |-> "inode is not a directory"]
    ELSE RetVec(WalkFrom(c.buf, c.len, 0, <<>>))

ReadDirInode(inode) == ReadDirFrom(ContiguousDataFromDirInode(inode), inode)

\* The names of the returned list are references into contiguous_data,
\* which is dropped when read_dir_inode returns: each name is read from
\* freed memory, and is either still the bytes of the buffer or whatever
\* the allocator and later allocations left there.
Freed == <<-1>>

Dangling(r) ==
    IF r.kind # "ok" THEN {r}
    ELSE {[kind |-> "ok",
           list |-> [i \in 1..Len(r.list) |->
                       IF i \in lost
                       THEN [inode |-> r.list[i].inode, name |-> Freed]
                       ELSE r.list[i]]] :
          lost \in SUBSET (1..Len(r.list))}

ReadDirOutcomes(inode) == Dangling(ReadDirInode(inode))

(***************************************************************************)
(* write_dir_entry_block and write_dir_inode: data is copied into the      *)
(* blocks of the non-zero direct pointers, block_size bytes at a time;     *)
(* the assertion that everything was written comes after the writes.       *)
(***************************************************************************)
\* A write through the pointer of the slice after the one asked for.
WriteNextBlock(blks, slice, data, whole_size, bytes_written) ==
    [blks EXCEPT ![slice + 2] =
        [j \in 1..Len(blks[slice + 2]) |->
            IF j <= Min(block_size, whole_size - bytes_written)
            THEN data[bytes_written + j]
            ELSE blks[slice + 2][j]]]

WriteDirEntryBlock(blks, slice, data, whole_size, bytes_written) ==
    LET bytes_to_write == Min(block_size, whole_size - bytes_written)
    IN  [blks EXCEPT ![slice + 1] =
            [j \in 1..Len(blks[slice + 1]) |->
                IF j <= bytes_to_write THEN data[bytes_written + j]
                ELSE blks[slice + 1][j]]]

RECURSIVE WriteDirect(_, _, _, _, _)
WriteDirect(root, data, i, bytes_written, blks) ==
    IF /\ i < DIRECT_POINTERS
       /\ bytes_written < Len(data)
       /\ root.direct_pointer[i] # 0
    THEN IF SlicePanics(root.direct_pointer[i])
         THEN [kind |-> "panic", blocks |-> blks]
         ELSE WriteDirect(root, data, i + 1,
                 bytes_written + Min(block_size, Len(data) - bytes_written),
                 WriteDirEntryBlock(blks, root.direct_pointer[i] - block_offset,
                                    data, Len(data), bytes_written))
    ELSE IF bytes_written = Len(data)
         THEN [kind |-> "ok", blocks |-> blks]
         ELSE [kind |-> "panic", blocks |-> blks]

WriteDirInodeOf(root, data) ==
    IF ~IsDirectory(root)
    THEN [kind |-> "err", blocks |-> blocks]
    ELSE WriteDirect(root, data, 0, 0, blocks)

WriteDirInode(inode, data) == WriteDirInodeOf(GetInode(inode), data)

(***************************************************************************)
(* insert_dir_entry.                                                       *)
(***************************************************************************)
\* The entry_size the second loop writes into the last record it counted:
\* its name_length plus the 8 header bytes plus 1.
LastEntryNewSize(name_length) == name_length + 4 + 2 + 1 + 1 + 1

\* The buffer after the two bytes of the new entry_size were written at
\* byte_offset + 4 and byte_offset + 5.
ShrinkLastEntry(buf, byte_offset, entry_size) ==
    [j \in 1..Len(buf) |->
        IF j = byte_offset + 5 THEN entry_size % 256
        ELSE IF j = byte_offset + 6 THEN (entry_size \div 256) % 256
        ELSE buf[j]]

\* The record appended at the tail of the Vec: the inode of the directory
\* itself, entry_size 8 + len + 1, name_length len + 1, type 2, the name and
\* a NUL.
NewEntryBytes(inode, name) ==
    LE32(inode)
    \o LE16((4 + 2 + 1 + 1 + Len(name) + 1) % 65536)
    \o <<(Len(name) + 1) % 256>>
    \o <<2>>
    \o name
    \o <<0>>

\* The second loop from the record it rewrites on: the cursor moves by the
\* new entry_size and the walk goes on to the end of the Vec.
AfterShrink(c, buf2, last, inode, name) ==
    IF WalkFrom(buf2, c.len, last.offset, <<>>).kind # "ok"
    THEN [kind |-> WalkFrom(buf2, c.len, last.offset, <<>>).kind]
    ELSE [kind |-> "ok",
          data |-> SubSeq(buf2, 1, c.len) \o NewEntryBytes(inode, name)]

ShrinkAndAppend(c, last, inode, name) ==
    IF last.offset + 6 > Len(c.buf)
    THEN [kind |-> "overrun"]
    ELSE AfterShrink(c,
            ShrinkLastEntry(c.buf, last.offset,
                            LastEntryNewSize(last.name_length)),
            last, inode, name)

\* After the first loop, which counts the records: first is its walk.
AfterCount(c, first, inode, name) ==
    IF first.kind # "ok" THEN [kind |-> first.kind]
    ELSE IF Len(first.entries) = 0
    THEN [kind |-> "ok",
          data |-> SubSeq(c.buf, 1, c.len) \o NewEntryBytes(inode, name)]
    ELSE ShrinkAndAppend(c, first.entries[Len(first.entries)], inode, name)

InsertBufferFrom(c, inode, name) ==
    IF c.kind # "ok" THEN [kind |-> "panic"]
    ELSE AfterCount(c, WalkFrom(c.buf, c.len, 0, <<>>), inode, name)

\* The Vec handed to write_dir_inode, or how the call ended before it.
InsertBuffer(inode, name) ==
    InsertBufferFrom(ContiguousDataFromDirInode(inode), inode, name)

\* .expect("write_dir_inode fails") and the assertion in write_dir_inode.
Written(w) ==
    IF w.kind = "ok" THEN w ELSE [kind |-> "panic", blocks |-> w.blocks]

InsertWrite(b, inode) ==
    IF b.kind # "ok" THEN [kind |-> b.kind, blocks |-> blocks]
    ELSE Written(WriteDirInode(inode, b.data))

InsertDirEntry(inode, name) == InsertWrite(InsertBuffer(inode, name), inode)

(***************************************************************************)
(* follow_path.  The result is a set: every listing read on the way is a   *)
(* list of names in freed memory.                                          *)
(***************************************************************************)
RECURSIVE Split(_, _)
Split(s, sep) ==
    LET hits == {i \in 1..Len(s) : s[i] = sep}
    IN  IF hits = {} THEN <<s>>
        ELSE LET i == CHOOSE m \in hits : \A j \in hits : m <= j
             IN  <<SubSeq(s, 1, i - 1)>> \o Split(SubSeq(s, i + 1, Len(s)), sep)

StartsWith(s, prefix) ==
    /\ Len(s) >= Len(prefix)
    /\ SubSeq(s, 1, Len(prefix)) = prefix

\* The index of the first entry the scan `for dir in &dirs` matches, or 0.
FirstMatch(listing, candidate) ==
    LET hits == {i \in 1..Len(listing) : listing[i].name = candidate}
    IN  IF hits = {} THEN 0
        ELSE CHOOSE m \in hits : \A j \in hits : m <= j

RECURSIVE FollowPathLoop(_, _, _, _)
FollowPathLoop(candidate_directories, listing, possible_inode, initial_dir) ==
    IF Len(candidate_directories) = 0
    THEN {[kind |-> "some", inode |-> possible_inode, diag |-> <<>>]}
    ELSE LET candidate == Head(candidate_directories)
             rest == Tail(candidate_directories)
             k == FirstMatch(listing, candidate)
         IN  IF k = 0
             THEN {[kind |-> "none", diag |-> <<"unable to locate">>]}
             ELSE IF GetInodePanics(listing[k].inode)
             THEN {[kind |-> "panic", diag |-> <<>>]}
             ELSE IF /\ ~IsDirectory(GetInode(listing[k].inode))
                     /\ Len(rest) # 0
             THEN {[kind |-> "some", inode |-> initial_dir,
                    diag |-> <<"not a directory">>]}
             ELSE IF Len(rest) > 0
             THEN UNION {
                    IF r.kind = "ok"
                    THEN FollowPathLoop(rest, r.list, listing[k].inode, initial_dir)
                    ELSE IF r.kind = "err"
                    THEN {[kind |-> "some", inode |-> listing[k].inode,
                           diag |-> <<"unable to read directory">>]}
                    ELSE {[kind |-> r.kind, diag |-> <<>>]} :
                    r \in ReadDirOutcomes(listing[k].inode)}
             ELSE FollowPathLoop(rest, listing, listing[k].inode, initial_dir)

\* dirs[0] is read before the loop: an empty listing panics.
FollowPath(path, listing) ==
    IF Len(listing) = 0 THEN {[kind |-> "panic", diag |-> <<>>]}
    ELSE FollowPathLoop(Split(path, 47), listing, 2, listing[1].inode)

(***************************************************************************)
(* read_file_inode: one NulStr per non-zero direct pointer, each starting  *)
(* at its block and ending at the first NUL of the device from there.      *)
(***************************************************************************)
RECURSIVE DevNulStr(_, _)
DevNulStr(k, off) ==
    IF k + (off \div block_size) >= Len(blocks) THEN <<-2>>
    ELSE IF DevByte(k, off) = 0 THEN <<>>
    ELSE <<DevByte(k, off)>> \o DevNulStr(k, off + 1)

RECURSIVE ReadFilePointers(_, _, _)
ReadFilePointers(root, i, ret) ==
    IF i = DIRECT_POINTERS THEN [kind |-> "ok", ret |-> ret]
    ELSE IF root.direct_pointer[i] # 0
    THEN IF SlicePanics(root.direct_pointer[i])
         THEN [kind |-> "panic"]
         ELSE ReadFilePointers(root, i + 1,
                 Append(ret, [pointer |-> root.direct_pointer[i],
                              bytes |-> DevNulStr(root.direct_pointer[i]
                                                  - block_offset, 0)]))
    ELSE ReadFilePointers(root, i + 1, ret)

ReadFileInode(inode) ==
    IF GetInodePanics(inode) THEN [kind |-> "panic"]
    ELSE IF ~IsFile(GetInode(inode))
    THEN [kind |-> "err", msg |-> "inode is not a file"]
    ELSE ReadFilePointers(GetInode(inode), 0, <<>>)

(***************************************************************************)
(* The commands.  Each operator gives the set of ways the call can end:    *)
(* a record with the diagnostics printed (diag), how the call ended (end:  *)
(* "return", "panic" or "hang") and what the call saw.                     *)
(***************************************************************************)
\* How a call that did not return a value ended.
Ended(kind) == IF kind = "hang" THEN "hang" ELSE "panic"

LsOutcomes(listing, command) ==
    LET elts == Split(command, 32)
        base == [op |-> "ls", line |-> command, before |-> current_working_inode]
    IN  IF Len(elts) = 1
        THEN {base @@ [res |-> "-", diag |-> <<>>, end |-> "return"]}
        ELSE {IF fp.kind = "none"
              THEN \* inode.unwrap() on None
                   base @@ [res |-> "none", end |-> "panic",
                            diag |-> fp.diag \o <<"unable to follow path">>]
              ELSE IF fp.kind # "some"
              THEN base @@ [res |-> fp.kind, end |-> Ended(fp.kind), diag |-> fp.diag]
              ELSE IF GetInodePanics(fp.inode)
              THEN base @@ [res |-> "some", inode |-> fp.inode, end |-> "panic",
                            read |-> "-", diag |-> fp.diag]
              ELSE LET d1 == IF IsDirectory(GetInode(fp.inode)) THEN fp.diag
                             ELSE fp.diag \o <<"not a directory">>
                       r == ReadDirInode(fp.inode)
                   IN  IF r.kind = "ok"
                       THEN base @@ [res |-> "some", inode |-> fp.inode,
                                     read |-> "ok", end |-> "return", diag |-> d1]
                       ELSE IF r.kind = "err"
                       THEN base @@ [res |-> "some", inode |-> fp.inode,
                                     read |-> "err", end |-> "return",
                                     diag |-> d1 \o <<"unable to read directory in ls",
                                                      "unable to read directory in ls">>]
                       ELSE base @@ [res |-> "some", inode |-> fp.inode,
                                     read |-> r.kind, end |-> Ended(r.kind),
                                     diag |-> d1] :
              fp \in FollowPath(elts[2], listing)}

\* The record has the value cd returned in `to` (0 for None).
CdOutcomes(listing, command) ==
    LET elts == Split(command, 32)
        base == [op |-> "cd", line |-> command, before |-> current_working_inode]
    IN  IF Len(elts) = 1
        THEN {base @@ [res |-> "-", to |-> 2, diag |-> <<>>, end |-> "return"]}
        ELSE {IF fp.kind = "none"
              THEN base @@ [res |-> "none", to |-> 0, end |-> "return",
                            diag |-> fp.diag \o <<"cd: unable to find directory",
                                                  "unable to read directory in cd">>]
              ELSE IF fp.kind # "some"
              THEN base @@ [res |-> fp.kind, to |-> 0, end |-> Ended(fp.kind),
                            diag |-> fp.diag]
              ELSE IF GetInodePanics(fp.inode)
              THEN base @@ [res |-> "some", inode |-> fp.inode, to |-> 0,
                            end |-> "panic", diag |-> fp.diag]
              ELSE base @@ [res |-> "some", inode |-> fp.inode, to |-> fp.inode,
                            end |-> "return",
                            diag |-> IF IsDirectory(GetInode(fp.inode)) THEN fp.diag
                                     ELSE fp.diag \o <<"not a directory">>] :
              fp \in FollowPath(elts[2], listing)}

CatOutcomes(listing, command) ==
    LET elts == Split(command, 32)
        base == [op |-> "cat", line |-> command, before |-> current_working_inode]
    IN  IF Len(elts) = 1
        THEN {base @@ [res |-> "-", diag |-> <<"must pass file to show">>,
                       end |-> "return"]}
        ELSE {IF fp.kind = "none"
              THEN base @@ [res |-> "none", end |-> "return",
                            diag |-> fp.diag \o <<"unable to follow path">>]
              ELSE IF fp.kind # "some"
              THEN base @@ [res |-> fp.kind, end |-> Ended(fp.kind), diag |-> fp.diag]
              ELSE IF GetInodePanics(fp.inode)
              THEN base @@ [res |-> "some", inode |-> fp.inode, end |-> "panic",
                            read |-> "-", diag |-> fp.diag]
              ELSE IF ~IsFile(GetInode(fp.inode))
              THEN base @@ [res |-> "some", inode |-> fp.inode, end |-> "return",
                            read |-> "-",
                            diag |-> fp.diag \o <<"not a file", "unable to cat file">>]
              ELSE LET f == ReadFileInode(fp.inode)
                   IN  IF f.kind = "ok"
                       THEN base @@ [res |-> "some", inode |-> fp.inode,
                                     end |-> "return", read |-> "ok",
                                     file_contents |-> f.ret, diag |-> fp.diag]
                       ELSE IF f.kind = "err"
                       THEN base @@ [res |-> "some", inode |-> fp.inode,
                                     end |-> "return", read |-> "err",
                                     diag |-> fp.diag \o <<"unable to cat file",
                                                           "unable to cat file">>]
                       ELSE base @@ [res |-> "some", inode |-> fp.inode,
                                     end |-> "panic", read |-> "panic",
                                     diag |-> fp.diag] :
              fp \in FollowPath(elts[2], listing)}

\* The records the record loop walks in directory n.
RecordsOf(n) ==
    WalkFrom(ContiguousDataFromDirInode(n).buf,
             ContiguousDataFromDirInode(n).len, 0, <<>>).entries

\* mkdir: elts[1] is read whether or not it is there; the entry goes into
\* the directory `inode` (the cwd).  The record has the blocks afterwards.
MkdirInserted(r, inode, command, name) ==
    [op |-> "mkdir", line |-> command, before |-> inode, res |-> "-",
     diag |-> <<>>, name |-> name, inserted |-> TRUE, insert |-> r.kind,
     records |-> RecordsOf(inode),
     end |-> IF r.kind = "ok" THEN "return" ELSE Ended(r.kind),
     blocks |-> r.blocks]

MkdirElts(elts, inode, command) ==
    IF Len(elts) = 1
    THEN [op |-> "mkdir", line |-> command, before |-> inode, res |-> "-",
          diag |-> <<"must pass file to mkdir">>, end |-> "panic",
          inserted |-> FALSE, blocks |-> blocks]
    ELSE MkdirInserted(InsertDirEntry(inode, elts[2]), inode, command, elts[2])

MkdirOutcome(inode, command) == MkdirElts(Split(command, 32), inode, command)

\* link: only reads; it ends with "link not yet implemented" and None.
LinkOutcomes(listing, inode, command) ==
    LET elts == Split(command, 32)
        base == [op |-> "link", line |-> command, before |-> inode]
    IN  IF Len(elts) # 3
        THEN {base @@ [res |-> "-", end |-> "return",
                       diag |-> <<"usage: link arg_1 arg_2 ...",
                                  "link to mount directory in rm">>]}
        ELSE {IF fp.kind = "none"
              THEN base @@ [res |-> "none", end |-> "return",
                            diag |-> fp.diag \o <<"unable to follow path to arg_1",
                                                  "link to mount directory in rm">>]
              ELSE IF fp.kind # "some"
              THEN base @@ [res |-> fp.kind, end |-> Ended(fp.kind), diag |-> fp.diag]
              ELSE IF GetInodePanics(fp.inode)
              THEN base @@ [res |-> "some", end |-> "panic", diag |-> fp.diag]
              ELSE LET r == ReadDirInode(inode)
                   IN  IF r.kind = "ok" /\ Len(r.list) > 0
                       THEN base @@ [res |-> "some", end |-> "return",
                                     diag |-> fp.diag \o <<"link not yet implemented",
                                                           "link to mount directory in rm">>]
                       ELSE \* unwrap() of an Err or of the pop of an empty list
                            base @@ [res |-> "some",
                                     end |-> IF r.kind = "hang" THEN "hang" ELSE "panic",
                                     diag |-> fp.diag] :
              fp \in FollowPath(elts[2], listing)}

(***************************************************************************)
(* The command loop of main.                                               *)
(***************************************************************************)
MaxInserts == 2

\* The lines typed at the prompt.
Lines ==
    {
      <<108, 115>>,                                        \* ls
      <<108, 115, 32, 98>>,                                \* ls b
      <<108, 115, 32, 97>>,                                \* ls a
      <<108, 115, 32, 122, 122>>,                          \* ls zz
      <<108, 115, 32, 97, 47, 99>>,                        \* ls a/c
      <<99, 100>>,                                         \* cd
      <<99, 100, 32, 98>>,                                 \* cd b
      <<99, 100, 32, 98, 47, 99>>,                         \* cd b/c
      <<99, 100, 32, 97, 47, 99>>,                         \* cd a/c
      <<99, 100, 32, 122, 122>>,                           \* cd zz
      <<99, 100, 32, 46, 46>>,                             \* cd ..
      <<99, 100, 32, 103>>,                                \* cd g
      <<99, 97, 116>>,                                     \* cat
      <<99, 97, 116, 32, 98, 47, 99>>,                     \* cat b/c
      <<99, 97, 116, 32, 98>>,                             \* cat b
      <<99, 97, 116, 32, 97>>,                             \* cat a
      <<99, 97, 116, 32, 100>>,                            \* cat d
      <<99, 97, 116, 32, 122, 122>>,                       \* cat zz
      <<109, 107, 100, 105, 114>>,                         \* mkdir
      <<109, 107, 100, 105, 114, 32, 101>>,                \* mkdir e
      <<109, 107, 100, 105, 114, 32, 102, 103>>,           \* mkdir fg
      <<114, 109, 32, 97>>,                                \* rm a
      <<109, 111, 117, 110, 116>>,                         \* mount
      <<108, 105, 110, 107, 32, 97>>,                      \* link a
      <<108, 105, 110, 107, 32, 97, 32, 122>>,             \* link a z
      <<113, 117, 105, 116>>,                              \* quit
      <<101, 120, 105, 116>>,                              \* exit
      <<112, 119, 100>>                                    \* pwd
    }

\* The if / else-if chain on line.starts_with(...).
Dispatch(line) ==
    IF StartsWith(line, <<108, 115>>) THEN "ls"
    ELSE IF StartsWith(line, <<99, 100>>) THEN "cd"
    ELSE IF StartsWith(line, <<109, 107, 100, 105, 114>>) THEN "mkdir"
    ELSE IF StartsWith(line, <<99, 97, 116>>) THEN "cat"
    ELSE IF StartsWith(line, <<114, 109>>) THEN "rm"
    ELSE IF StartsWith(line, <<109, 111, 117, 110, 116>>) THEN "mount"
    ELSE IF StartsWith(line, <<108, 105, 110, 107>>) THEN "link"
    ELSE IF \/ StartsWith(line, <<113, 117, 105, 116>>)
            \/ StartsWith(line, <<101, 120, 105, 116>>) THEN "quit"
    ELSE "none"

AfterCommand(end) ==
    IF end = "return" THEN "loop" ELSE IF end = "hang" THEN "hung" ELSE "aborted"

Init ==
    /\ superblock = ImageSuperblock
    /\ block_groups = NewBlockGroups(ImageSuperblock)
    /\ block_size = NewBlockSize(ImageSuperblock)
    /\ block_offset = NewBlockOffset(ImageSuperblock)
    /\ blocks = ImageBlocks
    /\ current_working_inode = 2
    /\ dirs = <<>>
    /\ pc = "loop"
    /\ out = NoOut
    /\ inserts = 0

image == <<superblock, block_groups, block_size, block_offset>>

\* The top of the loop: read_dir_inode(current_working_inode).
ReadCwd ==
    /\ pc = "loop"
    /\ \E r \in ReadDirOutcomes(current_working_inode) :
        \/ /\ r.kind = "ok"
           /\ dirs' = r.list
           /\ pc' = "readline"
           /\ out' = NoOut
        \/ /\ r.kind = "err"
           /\ pc' = "exited"
           /\ UNCHANGED <<dirs, out>>
        \/ /\ r.kind \notin {"ok", "err"}
           /\ pc' = AfterCommand(Ended(r.kind))
           /\ UNCHANGED <<dirs, out>>
    /\ UNCHANGED <<image, blocks, current_working_inode, inserts>>

Ls ==
    /\ pc = "readline"
    /\ \E line \in Lines :
        /\ Dispatch(line) = "ls"
        /\ \E o \in LsOutcomes(dirs, line) :
            /\ out' = o
            /\ pc' = AfterCommand(o.end)
    /\ dirs' = <<>>
    /\ UNCHANGED <<image, blocks, current_working_inode, inserts>>

Cd ==
    /\ pc = "readline"
    /\ \E line \in Lines :
        /\ Dispatch(line) = "cd"
        /\ \E o \in CdOutcomes(dirs, line) :
            /\ out' = o
            /\ pc' = AfterCommand(o.end)
            /\ current_working_inode' =
                 IF o.end = "return" /\ o.to # 0 THEN o.to
                 ELSE current_working_inode
    /\ dirs' = <<>>
    /\ UNCHANGED <<image, blocks, inserts>>

Mkdir ==
    /\ pc = "readline"
    /\ inserts < MaxInserts
    /\ \E line \in Lines :
        /\ Dispatch(line) = "mkdir"
        /\ \E o \in {MkdirOutcome(current_working_inode, line)} :
            /\ out' = [f \in DOMAIN o \ {"blocks"} |-> o[f]]
            /\ blocks' = o.blocks
            /\ pc' = AfterCommand(o.end)
            /\ inserts' = IF o.inserted THEN inserts + 1 ELSE inserts
    /\ dirs' = <<>>
    /\ UNCHANGED <<image, current_working_inode>>

\* A cat that ends the text it shows with a NUL written into the block: the
\* first byte of the first data block of the file is overwritten.
CatMarksEnd ==
    /\ pc = "readline"
    /\ \E line \in Lines :
        /\ Dispatch(line) = "cat"
        /\ \E o \in CatOutcomes(dirs, line) :
            /\ out' = o
            /\ pc' = AfterCommand(o.end)
            /\ blocks' = IF o.res = "some" /\ o.read = "ok"
                         THEN [blocks EXCEPT
                                 ![o.file_contents[1].pointer - block_offset + 1][1] = 0]
                         ELSE blocks
    /\ dirs' = <<>>
    /\ UNCHANGED <<image, current_working_inode, inserts>>

Cat ==
    /\ pc = "readline"
    /\ \E line \in Lines :
        /\ Dispatch(line) = "cat"
        /\ \E o \in CatOutcomes(dirs, line) :
            /\ out' = o
            /\ pc' = AfterCommand(o.end)
    /\ dirs' = <<>>
    /\ UNCHANGED <<image, blocks, current_working_inode, inserts>>

\* rm and mount print "not yet implemented" and return None.
Rm ==
    /\ pc = "readline"
    /\ \E line \in Lines :
        /\ Dispatch(line) = "rm"
        /\ out' = [op |-> "rm", line |-> line, before |-> current_working_inode,
                   res |-> "-", end |-> "return",
                   diag |-> <<"rm not yet implemented",
                              "unable to remove directory in rm">>]
    /\ pc' = "loop"
    /\ dirs' = <<>>
    /\ UNCHANGED <<image, blocks, current_working_inode, inserts>>

Mount ==
    /\ pc = "readline"
    /\ \E line \in Lines :
        /\ Dispatch(line) = "mount"
        /\ out' = [op |-> "mount", line |-> line, before |-> current_working_inode,
                   res |-> "-", end |-> "return",
                   diag |-> <<"mount not yet implemented",
                              "unable to mount directory in rm">>]
    /\ pc' = "loop"
    /\ dirs' = <<>>
    /\ UNCHANGED <<image, blocks, current_working_inode, inserts>>

Link ==
    /\ pc = "readline"
    /\ \E line \in Lines :
        /\ Dispatch(line) = "link"
        /\ \E o \in LinkOutcomes(dirs, current_working_inode, line) :
            /\ out' = o
            /\ pc' = AfterCommand(o.end)
    /\ dirs' = <<>>
    /\ UNCHANGED <<image, blocks, current_working_inode, inserts>>

\* A line no branch matches: the loop goes round.
Other ==
    /\ pc = "readline"
    /\ \E line \in Lines :
        /\ Dispatch(line) = "none"
        /\ out' = [op |-> "other", line |-> line, before |-> current_working_inode,
                   res |-> "-", end |-> "return", diag |-> <<>>]
    /\ pc' = "loop"
    /\ dirs' = <<>>
    /\ UNCHANGED <<image, blocks, current_working_inode, inserts>>

Quit ==
    /\ pc = "readline"
    /\ \E line \in Lines :
        /\ Dispatch(line) = "quit"
        /\ out' = [op |-> "quit", line |-> line, before |-> current_working_inode,
                   res |-> "-", end |-> "return", diag |-> <<>>]
    /\ pc' = "exited"
    /\ dirs' = <<>>
    /\ UNCHANGED <<image, blocks, current_working_inode, inserts>>

\* readline returned an error (end of input): "bye!".
Eof ==
    /\ pc = "readline"
    /\ out' = [op |-> "eof", line |-> <<>>, before |-> current_working_inode,
               res |-> "-", end |-> "return", diag |-> <<"bye!">>]
    /\ pc' = "exited"
    /\ dirs' = <<>>
    /\ UNCHANGED <<image, blocks, current_working_inode, inserts>>

Next ==
    \/ ReadCwd
    \/ Ls
    \/ Cd
    \/ Mkdir
    \/ Cat
    \/ Rm
    \/ Mount
    \/ Link
    \/ Other
    \/ Quit
    \/ Eof

Spec == Init /\ [][Next]_vars

(***************************************************************************)
(* Properties of the command loop.                                         *)
(***************************************************************************)
\* The path argument of a command line: elts[1].
PathOf(line) == Split(line, 32)[2]

\* The listing read_dir_inode returns for inode, with every name intact.
ListingOf(inode) ==
    IF ReadDirInode(inode).kind = "ok" THEN ReadDirInode(inode).list ELSE <<>>

CanDescend(n) ==
    /\ ~GetInodePanics(n)
    /\ IsDirectory(GetInode(n))

\* The inodes a path names from a listing: each component equals the name
\* of an entry of the directory reached so far, and every component but the
\* last names a directory.
RECURSIVE Resolutions(_, _)
Resolutions(components, listing) ==
    IF Len(components) = 1
    THEN {listing[i].inode :
            i \in {j \in 1..Len(listing) : listing[j].name = components[1]}}
    ELSE UNION {IF CanDescend(listing[i].inode)
                THEN Resolutions(Tail(components), ListingOf(listing[i].inode))
                ELSE {} :
                i \in {j \in 1..Len(listing) : listing[j].name = components[1]}}

\* C1: after insert_dir_entry(d, name) driven by mkdir has returned, the
\* list read_dir_inode(d) returns ends with the new entry: its name is the
\* inserted name and its inode is the inode written into the new record.
C1_InsertVisibility ==
    (out.op = "mkdir" /\ out.inserted /\ out.end = "return")
        => /\ ReadDirInode(out.before).kind = "ok"
           /\ Len(ListingOf(out.before)) > 0
           /\ ListingOf(out.before)[Len(ListingOf(out.before))].name = out.name
           /\ ListingOf(out.before)[Len(ListingOf(out.before))].inode = out.before

\* The inode numbers of the image.
InodeNumbers == 1..(superblock.inodes_per_group * Len(block_groups))

\* The records of the whole payload of a directory, walked by entry_size.
PayloadWalk(c) == WalkFrom(c.buf, Len(c.buf), 0, <<>>)

RecordsFillSize(n) ==
    /\ ContiguousDataFromDirInode(n).kind = "ok"
    /\ PayloadWalk(ContiguousDataFromDirInode(n)).kind = "ok"
    /\ PayloadWalk(ContiguousDataFromDirInode(n)).byte_offset
         = WholeSize(GetInode(n))
    /\ WholeSize(GetInode(n)) % block_size = 0

\* C2: in every reachable state, for every directory inode the entry_size
\* values of its records add up to the declared size of the directory, and
\* that size is a multiple of block_size.
C2_DirectorySize ==
    \A n \in InodeNumbers : CanDescend(n) => RecordsFillSize(n)

\* C3: when the path given to cd resolves to an inode that is not a
\* directory, "not a directory" is printed and current_working_inode after
\* the command is what it was before the command.
C3_CdNonDirectory ==
    (/\ out.op = "cd"
     /\ out.res = "some"
     /\ out.end = "return"
     /\ ~IsDirectory(GetInode(out.inode)))
        => /\ \E i \in 1..Len(out.diag) : out.diag[i] = "not a directory"
           /\ current_working_inode = out.before

\* The command whose record is in out failed: the path was missing, ls or cd
\* named a non-directory, cat named a non-file, or mkdir had no argument.
FailedOnInode ==
    /\ out.res = "some"
    /\ ~GetInodePanics(out.inode)
    /\ \/ out.op \in {"ls", "cd"} /\ ~IsDirectory(GetInode(out.inode))
       \/ out.op = "cat" /\ ~IsFile(GetInode(out.inode))

FailedCommand ==
    /\ out.op \in {"ls", "cd", "cat", "mkdir"}
    /\ \/ out.res = "none"
       \/ out.op = "mkdir" /\ ~out.inserted
       \/ out.op # "mkdir" /\ FailedOnInode

\* C4: a command that fails prints a diagnostic and returns to the prompt:
\* neither the command nor the read of the cwd listing at the top of the next
\* iteration aborts the process.
C4_FailedCommandReturns ==
    FailedCommand
        => /\ out.end = "return"
           /\ Len(out.diag) > 0
           /\ pc # "aborted"

\* C5: follow_path returns an inode only if every component of the path, in
\* order, is the name of an entry of the directory reached so far and every
\* component but the last is a directory; otherwise it returns no inode.
C5_PathResolution ==
    (out.op \in {"ls", "cd", "cat"} /\ out.res = "some")
        => out.inode \in Resolutions(Split(PathOf(out.line), 47),
                                     ListingOf(out.before))

\* C6: read_dir_inode on an inode without the DIRECTORY bit returns the
\* error "inode is not a directory" to its caller and does not abort.
C6_ReadDirNonDirectory ==
    (/\ out.op = "ls"
     /\ out.res = "some"
     /\ out.read # "-"
     /\ ~IsDirectory(GetInode(out.inode)))
        => /\ out.read = "err"
           /\ out.end = "return"

\* The number of bytes in the strings read_file_inode returned.
RECURSIVE TotalBytes(_)
TotalBytes(ret) ==
    IF Len(ret) = 0 THEN 0 ELSE Len(Head(ret).bytes) + TotalBytes(Tail(ret))

\* C7: for a regular file whose declared size is at most 12 * block_size,
\* the bytes read_file_inode returns number (size_high << 32) | size_low.
C7_FileSize ==
    (/\ out.op = "cat"
     /\ out.res = "some"
     /\ out.read = "ok"
     /\ WholeSize(GetInode(out.inode)) <= DIRECT_POINTERS * block_size)
        => TotalBytes(out.file_contents) = WholeSize(GetInode(out.inode))

\* The direct pointers in front of the first zero pointer.
LeadingPointers(root) ==
    {root.direct_pointer[i] :
        i \in {j \in 0..(DIRECT_POINTERS - 1) :
                 \A k \in 0..j : root.direct_pointer[k] # 0}}

\* C8: read_file_inode stops at the first zero direct pointer: what it
\* returns comes from the blocks in front of that pointer only.
C8_StopAtZeroPointer ==
    (out.op = "cat" /\ out.res = "some" /\ out.read = "ok")
        => \A i \in 1..Len(out.file_contents) :
              out.file_contents[i].pointer \in LeadingPointers(GetInode(out.inode))

\* C11: the read operations (the cwd listing at the top of the loop, ls, cd,
\* cat and the calls they make) leave every byte of the image unchanged; a
\* step that changes a byte is a mkdir that reached insert_dir_entry.
C11_ReadsDoNotWrite ==
    [][(blocks' # blocks \/ image' # image)
          => (out'.op = "mkdir" /\ out'.inserted /\ pc = "readline")]_vars

\* A file was read by cat after an insert had changed the image.
C11_Witness ==
    /\ out.op = "cat"
    /\ out.res = "some"
    /\ out.read = "ok"
    /\ blocks # ImageBlocks

\* The last record of directory n.
LastRecordOf(n) == RecordsOf(n)[Len(RecordsOf(n))]

\* The bytes of the last record that neither its header nor its name uses.
SlackOf(rec) == rec.entry_size - (8 + rec.name_length)

\* The new record (header, name and NUL) has room in the last record of d.
InsertFits(d, name) == SlackOf(LastRecordOf(d)) >= 8 + Len(name) + 1

\* C12: an insert_dir_entry whose new record does not fit in the slack of
\* the last record of the directory is rejected: the call returns the error
\* and no byte of the blocks has been changed.
C12_InsertBudget ==
    [][(/\ pc = "readline"
        /\ out'.op = "mkdir"
        /\ out'.inserted
        /\ ~InsertFits(current_working_inode, out'.name))
          => (out'.insert = "err" /\ blocks' = blocks)]_vars

\* The (inode, name) pairs of records.
PairsOf(records) ==
    [i \in 1..Len(records) |->
        [inode |-> records[i].inode, name |-> records[i].name]]

\* Listing `after` starts with the entries of listing `before`: the same
\* inode and the same name at every position.
KeepsEntries(before, after) ==
    /\ Len(after) >= Len(before)
    /\ \A i \in 1..Len(before) : after[i] = before[i]

\* C13: after a successful insert_dir_entry on directory d, read_dir_inode(d)
\* still returns every entry listed before, at the same position, with the
\* same inode and the same name.
C13_EntriesSurvive ==
    (out.op = "mkdir" /\ out.inserted /\ out.end = "return")
        => KeepsEntries(PairsOf(out.records), ListingOf(out.before))

RoundUp(n, m) == ((n + m - 1) \div m) * m

\* The payload of directory n as contiguous_data_from_dir_inode gathers it.
PayloadOf(n) == ContiguousDataFromDirInode(n).buf

\* Where a walk by entry_size arrives from the record at offset.
AfterRecord(buf, offset) == offset + U16(buf, offset + 4)

\* The bytes of buf from position pos on are the record rec.
RecordAt(buf, pos, rec) ==
    /\ pos + Len(rec) <= Len(buf)
    /\ SubSeq(buf, pos + 1, pos + Len(rec)) = rec

\* The record that was last before the insert, as the insert found it.
LastBefore == out.records[Len(out.records)]

\* C16: insert_dir_entry overwrites the entry_size of the final existing
\* record with round_up(8 + name_length + 1, 4), and the new record starts at
\* the offset of that record plus its new entry_size.
C16_ShrinkLastRecord ==
    (out.op = "mkdir" /\ out.inserted /\ out.end = "return"
        /\ Len(out.records) > 0)
        => /\ U16(PayloadOf(out.before), LastBefore.offset + 4)
                = RoundUp(8 + LastBefore.name_length + 1, 4)
           /\ RecordAt(PayloadOf(out.before),
                       AfterRecord(PayloadOf(out.before), LastBefore.offset),
                       NewEntryBytes(out.before, out.name))

\* The disk blocks the non-zero direct pointers of inode n name.
DirectBlocksOf(n) ==
    {GetInode(n).direct_pointer[i] : i \in 0..(DIRECT_POINTERS - 1)} \ {0}

\* The slices of blocks that a step changed.
ChangedSlices == {k \in 1..Len(blocks) : blocks'[k] # blocks[k]}

\* C17: insert_dir_entry(d, name) changes bytes only inside the data blocks
\* the non-zero direct pointers of d name, and no block changes its length;
\* the superblock, the descriptors, the inode table and the data blocks of
\* every other file or directory stay as they were.
C17_InsertConfined ==
    [][(pc = "readline" /\ out'.op = "mkdir")
          => /\ image' = image
             /\ Len(blocks') = Len(blocks)
             /\ \A k \in 1..Len(blocks) : Len(blocks'[k]) = Len(blocks[k])
             /\ \A k \in ChangedSlices :
                   k - 1 + block_offset \in DirectBlocksOf(current_working_inode)
             /\ \A n \in InodeNumbers \ {current_working_inode} :
                   \A b \in DirectBlocksOf(n) :
                      SlicePanics(b) \/ b - block_offset + 1 \notin ChangedSlices]_vars

\* An insert has written into a block of its directory.
C17_Witness ==
    /\ out.op = "mkdir"
    /\ out.inserted
    /\ \E b \in DirectBlocksOf(out.before) :
          blocks[b - block_offset + 1] # ImageBlocks[b - block_offset + 1]

(***************************************************************************)
(* The directory-read specification: read_dir_inode on the directories of  *)
(* a device, its record loop taken one iteration at a time.  The devices:  *)
(*   /  (inode 2)   12 direct blocks (7..18) and the indirect block 19,    *)
(*                  whose first two words name the blocks 20 and 21 or are *)
(*                  zero; the declared size is 12, 13 or 14 blocks         *)
(*   z/ (inode 12)  one block (22) of zero bytes                           *)
(*   h/ (inode 13)  one block (23):  .  ..  and a record with entry_size 0 *)
(***************************************************************************)
MaxIndirectBlocks == 2

DirSuperblock ==
    [log_block_size |-> 0, blocks_count |-> 24, blocks_per_group |-> 8192,
     inodes_per_group |-> 16, inode_size |-> 128]

\* An on-disk inode record with its 12 direct pointers and indirect_pointer
\* at 88.
DirImageInode(type_perm, size, pointers, indirect) ==
    Pad(LE16(type_perm) \o <<0, 0>> \o LE32(size) \o Zeros(32)
        \o LE32(pointers[1]) \o LE32(pointers[2]) \o LE32(pointers[3])
        \o LE32(pointers[4]) \o LE32(pointers[5]) \o LE32(pointers[6])
        \o LE32(pointers[7]) \o LE32(pointers[8]) \o LE32(pointers[9])
        \o LE32(pointers[10]) \o LE32(pointers[11]) \o LE32(pointers[12])
        \o LE32(indirect),
        InodeStructSize)

OnePointer(p) == <<p, 0, 0, 0, 0, 0, 0, 0, 0, 0, 0, 0>>

DirInodeTable(size, indirect) ==
    Zeros(InodeStructSize)                                              \* 1
    \o DirImageInode(TYPE_DIRECTORY + 493, size,
                     <<7, 8, 9, 10, 11, 12, 13, 14, 15, 16, 17, 18>>,
                     indirect)                                          \* 2: /
    \o Zeros(9 * InodeStructSize)                                       \* 3..11
    \o DirImageInode(TYPE_DIRECTORY + 493, 1024, OnePointer(22), 0)     \* 12: z
    \o DirImageInode(TYPE_DIRECTORY + 493, 1024, OnePointer(23), 0)     \* 13: h
    \o Zeros(3 * InodeStructSize)                                       \* 14..16

\* A directory block that one record fills.
OneRecordBlock(inode, name) == ImageDirEntry(inode, 1024, 1, name)

DirFirstBlock ==
    ImageDirEntry(2, 12, 2, <<46>>)                 \* .
    \o ImageDirEntry(2, 12, 2, <<46, 46>>)          \* ..
    \o ImageDirEntry(12, 12, 2, <<122>>)            \* z
    \o ImageDirEntry(13, 988, 2, <<104>>)           \* h

\* The record after .. has entry_size 0.
DirBlockH ==
    Pad(ImageDirEntry(13, 12, 2, <<46>>)
        \o ImageDirEntry(2, 12, 2, <<46, 46>>)
        \o LE32(14) \o LE16(0) \o <<1, 1, 113>>, 1024)

DirBlocks(size, indirect, words) ==
    << Pad(<<255, 255, 255>>, 1024),                    \* 3: block bitmap
       Pad(<<255, 31>>, 1024),                          \* 4: inode bitmap
       SubSeq(DirInodeTable(size, indirect), 1, 1024),      \* 5: inode table
       SubSeq(DirInodeTable(size, indirect), 1025, 2048),   \* 6: inode table
       DirFirstBlock,                                   \* 7
       OneRecordBlock(14, <<97>>),                      \* 8
       OneRecordBlock(14, <<98>>),                      \* 9
       OneRecordBlock(14, <<99>>),                      \* 10
       OneRecordBlock(14, <<100>>),                     \* 11
       OneRecordBlock(14, <<101>>),                     \* 12
       OneRecordBlock(14, <<102>>),                     \* 13
       OneRecordBlock(14, <<103>>),                     \* 14
       OneRecordBlock(14, <<105>>),                     \* 15
       OneRecordBlock(14, <<106>>),                     \* 16
       OneRecordBlock(14, <<107>>),                     \* 17
       OneRecordBlock(14, <<108>>),                     \* 18
       Pad(LE32(words[1]) \o LE32(words[2]), 1024),     \* 19: indirect block
       OneRecordBlock(15, <<120>>),                     \* 20
       OneRecordBlock(16, <<121>>),                     \* 21
       Zeros(1024),                                     \* 22: z
       DirBlockH,                                       \* 23: h
       Zeros(1024) >>                                   \* 24

InitDir ==
    /\ superblock = DirSuperblock
    /\ block_groups = NewBlockGroups(DirSuperblock)
    /\ block_size = NewBlockSize(DirSuperblock)
    /\ block_offset = NewBlockOffset(DirSuperblock)
    /\ \E size \in {(DIRECT_POINTERS + k) * 1024 : k \in 0..MaxIndirectBlocks},
          indirect \in {0, 19},
          words \in {0, 20, 21} \X {0, 20, 21} :
            blocks = DirBlocks(size, indirect, words)
    /\ current_working_inode = 2
    /\ dirs = <<>>
    /\ pc = "idle"
    /\ out = NoOut
    /\ inserts = 0

\* read_dir_inode(n) up to its record loop: the Vec is gathered and trimmed
\* and the cursor is at 0.
StartRead ==
    /\ pc = "idle"
    /\ \E n \in {2, 12, 13} :
        \E c \in {ContiguousDataFromDirInode(n)} :
            /\ c.kind = "ok"
            /\ out' = [op |-> "read_dir", inode |-> n, len |-> c.len,
                       capacity |-> Len(c.buf), byte_offset |-> 0]
    /\ pc' = "walking"
    /\ UNCHANGED <<image, blocks, current_working_inode, dirs, inserts>>

\* Byte off of the Vec gathered for directory n: the Vec is a copy of the
\* blocks of the direct pointers, one after the other.
VecByte(n, off) ==
    blocks[GetInode(n).direct_pointer[off \div block_size] - block_offset + 1]
          [(off % block_size) + 1]

\* directory.entry_size of the record at byte_offset of the Vec.
EntrySizeAt(n, byte_offset) ==
    U16(<<VecByte(n, byte_offset + 4), VecByte(n, byte_offset + 5)>>, 0)

\* One iteration of `while byte_offset < contiguous_data.len()`: the cursor
\* moves by the entry_size of the record under it.  A record header outside
\* the allocation is not memory of the Vec.
WalkStep ==
    /\ pc = "walking"
    /\ out.byte_offset < out.len
    /\ IF out.byte_offset + 8 > out.capacity
       THEN pc' = "aborted" /\ out' = out
       ELSE /\ pc' = pc
            /\ out' = [out EXCEPT !.byte_offset =
                         @ + EntrySizeAt(out.inode, @)]
    /\ UNCHANGED <<image, blocks, current_working_inode, dirs, inserts>>

\* The loop condition fails: read_dir_inode returns ret_vec.
WalkEnd ==
    /\ pc = "walking"
    /\ out.byte_offset >= out.len
    /\ pc' = "done"
    /\ UNCHANGED <<image, blocks, current_working_inode, dirs, out, inserts>>

NextDir == StartRead \/ WalkStep \/ WalkEnd

SpecDir == InitDir /\ [][NextDir]_vars

\* The loop is the only thing the process does while it runs: an iteration
\* that can be taken is taken.
SpecDirFair == SpecDir /\ WF_vars(WalkStep) /\ WF_vars(WalkEnd)

\* The words of the indirect block of inode record root.
IndirectWords(root) ==
    [i \in 1..MaxIndirectBlocks |->
        U32(blocks[root.indirect_pointer - block_offset + 1], 4 * (i - 1))]

\* The blocks the non-zero words name, one after the other.
RECURSIVE IndirectData(_)
IndirectData(words) ==
    IF Len(words) = 0 THEN <<>>
    ELSE IF Head(words) = 0 THEN IndirectData(Tail(words))
    ELSE blocks[Head(words) - block_offset + 1] \o IndirectData(Tail(words))

\* The 12 direct blocks of root.
DirectData(root) == GatherDirect(root, DIRECT_POINTERS * block_size, 0, <<>>).data

HasIndirect(root) ==
    /\ WholeSize(root) > DIRECT_POINTERS * block_size
    /\ root.indirect_pointer # 0

\* C14: for a directory whose declared size exceeds 12 * block_size and
\* whose indirect_pointer is non-zero, the payload gathered by
\* contiguous_data_from_dir_inode has the data blocks named by the non-zero
\* words of the indirect block, in order, after the 12 direct blocks, up to
\* the declared size.
C14_IndirectRead ==
    (out.op = "read_dir" /\ HasIndirect(GetInode(out.inode)))
        => PayloadOf(out.inode)
             = SubSeq(DirectData(GetInode(out.inode))
                        \o IndirectData(IndirectWords(GetInode(out.inode))),
                      1,
                      Min(WholeSize(GetInode(out.inode)),
                          DIRECT_POINTERS * block_size
                            + Len(IndirectData(IndirectWords(GetInode(out.inode))))))

\* C15: the record walk terminates: whatever the gathered payload is, the
\* cursor loop of read_dir_inode reaches the payload length and stops.
C15_WalkTerminates == (pc = "walking") ~> (pc = "done")

(***************************************************************************)
(* The mount specification: Ext2::new on a device, then block and inode    *)
(* lookups through the view it built.                                      *)
(***************************************************************************)
InitMount ==
    /\ superblock \in Superblocks
    /\ block_groups = <<>>
    /\ block_size = 0
    /\ block_offset = 0
    /\ blocks = <<>>
    /\ current_working_inode = 2
    /\ dirs = <<>>
    /\ pc = "device"
    /\ out = NoOut
    /\ inserts = 0

New ==
    /\ pc = "device"
    /\ block_groups' = NewBlockGroups(superblock)
    /\ block_size' = NewBlockSize(superblock)
    /\ block_offset' = NewBlockOffset(superblock)
    /\ pc' = "mounted"
    /\ UNCHANGED <<superblock, blocks, current_working_inode, dirs, out, inserts>>

\* self.blocks[B - self.block_offset]: the slice used for disk block B.
ProbeBlock ==
    /\ pc = "mounted"
    /\ \E B \in 0..MaxProbeBlock :
        /\ B >= block_offset
        /\ out' = [op |-> "block", block |-> B,
                   start |-> SliceStart(superblock, B - block_offset)]
    /\ UNCHANGED <<superblock, block_groups, block_size, block_offset, blocks,
                   current_working_inode, dirs, pc, inserts>>

ProbeInode ==
    /\ pc = "mounted"
    /\ \E n \in 1..(superblock.inodes_per_group * Len(block_groups)) :
        out' = IF GetInodePanics(n)
               THEN [op |-> "inode", inode |-> n, panic |-> TRUE]
               ELSE [op |-> "inode", inode |-> n, panic |-> FALSE,
                     address |-> GetInodeAddress(n)]
    /\ UNCHANGED <<superblock, block_groups, block_size, block_offset, blocks,
                   current_working_inode, dirs, pc, inserts>>

NextMount == New \/ ProbeBlock \/ ProbeInode

SpecMount == InitMount /\ [][NextMount]_vars

\* C9: for every supported block size and every disk block B >= block_offset,
\* the slice blocks[B - block_offset] starts at device byte B * block_size.
C9_BlockTranslation ==
    (pc = "mounted" /\ out.op = "block")
        => out.start = out.block * block_size

\* C10: get_inode(n) returns the record at byte offset
\* ((n-1) % inodes_per_group) * inode_size from the start of block
\* block_groups[(n-1) / inodes_per_group].inode_table_block, for the
\* superblock's inode_size.
C10_InodeResolution ==
    (pc = "mounted" /\ out.op = "inode")
        => /\ ~out.panic
           /\ out.address =
                block_groups[GetInodeGroup(out.inode) + 1].inode_table_block
                    * block_size
                + GetInodeIndex(out.inode) * superblock.inode_size

=============================================================================
